---- MODULE Spec2Model ----
(***************************************************************************)
(* A model of ehrglot: the schema loader (pkg/schema/loader.go), the       *)
(* Python generator (pkg/generator/python/python.go) and the generate      *)
(* command (cmd/ehrglot/main.go).                                          *)
(*                                                                         *)
(* Go strings are modelled as sequences of one-character strings, so that  *)
(* prefix and suffix tests, lower-casing, path joining and formatting are  *)
(* computed character by character as the code computes them.              *)
(***************************************************************************)
EXTENDS Naturals, Sequences, FiniteSets, TLC

VARIABLES
    \* ---- python.toPythonType, applied to one abstract type
    depth,        \* number of leading "[]" markers of the input
    token,        \* the rest of the input: a string that does not start with "[]"
    yamlType,     \* the input string: depth markers followed by token
    pyType,       \* the result
    tpc           \* "ready" | "done"

VARIABLES
    \* ---- schema.Loader, on one schema root
    fs,           \* the schema root: what ReadDir, Stat, Glob and ReadFile see
    schemas,      \* the []Schema LoadAll returned
    err,          \* the error LoadAll or ListSchemas returned ("none": nil)
    names,        \* the []string ListSchemas returned
    ioLog,        \* the file-system calls made on the schema root, in order
    lpc           \* "idle" | "loaded" | "listed"

VARIABLES
    \* ---- python.Generator.Generate, on the schemas and one output directory
    byNamespace,  \* the map of line 25: namespace -> its schemas, in order
    pending,      \* the namespaces the range of line 30 has not yielded yet
    nsCur,        \* the namespace of the current turn of that range
    idx,          \* how many schemas of nsCur the loop of line 43 has written
    out,          \* the output tree: directories, and files with their text
    gerr,         \* the error Generate returned ("none": nil)
    gpc,          \* "idle" | "group" | "range" | "schemas" | "done"
    emitted,      \* the files this run has written, in order
    run,          \* the number of this run on the output directory
    prev          \* the output tree and the error the run before left

VARIABLES
    \* ---- the generate command
    language,     \* the --lang flag
    cpc,          \* "load" | "select" | "generate" | "generating" | "done"
    cerr,         \* the error RunE returned: message and what it wraps or echoes
    generator,    \* the package the switch selected, "none", or "unselected"
    prevSel,      \* the language and the selection of the invocation before
    invocation    \* the number of this invocation

typeVars == <<depth, token, yamlType, pyType, tpc>>
loaderVars == <<fs, schemas, err, names, ioLog, lpc>>
genVars == <<byNamespace, pending, nsCur, idx, out, gerr, gpc, emitted, run, prev>>
cmdVars == <<language, cpc, cerr, generator, prevSel, invocation>>
vars == <<typeVars, loaderVars, genVars, cmdVars>>

----------------------------------------------------------------------------
(* Strings *)

\* strings.HasPrefix
HasPrefix(s, p) == Len(s) >= Len(p) /\ SubSeq(s, 1, Len(p)) = p

\* strings.HasSuffix
HasSuffix(s, p) == Len(s) >= Len(p) /\ SubSeq(s, Len(s) - Len(p) + 1, Len(s)) = p

\* strings.TrimPrefix
TrimPrefix(s, p) == IF HasPrefix(s, p) THEN SubSeq(s, Len(p) + 1, Len(s)) ELSE s

UpperToLower ==
    [A |-> "a", B |-> "b", C |-> "c", D |-> "d", E |-> "e", F |-> "f", G |-> "g",
     H |-> "h", I |-> "i", J |-> "j", K |-> "k", L |-> "l", M |-> "m", N |-> "n",
     O |-> "o", P |-> "p", Q |-> "q", R |-> "r", S |-> "s", T |-> "t", U |-> "u",
     V |-> "v", W |-> "w", X |-> "x", Y |-> "y", Z |-> "z"]

\* r >= 'A' && r <= 'Z'
IsUpper(c) == c \in DOMAIN UpperToLower

LowerChar(c) == IF IsUpper(c) THEN UpperToLower[c] ELSE c

\* strings.ToLower
ToLower(s) == [i \in 1..Len(s) |-> LowerChar(s[i])]

----------------------------------------------------------------------------
(* python.toPythonType *)

Marker == <<"[", "]">>

T_string == <<"s","t","r","i","n","g">>
T_code == <<"c","o","d","e">>
T_id == <<"i","d">>
T_uri == <<"u","r","i">>
T_url == <<"u","r","l">>
T_integer == <<"i","n","t","e","g","e","r">>
T_positiveInt == <<"p","o","s","i","t","i","v","e","I","n","t">>
T_unsignedInt == <<"u","n","s","i","g","n","e","d","I","n","t">>
T_decimal == <<"d","e","c","i","m","a","l">>
T_boolean == <<"b","o","o","l","e","a","n">>
T_date == <<"d","a","t","e">>
T_datetime == <<"d","a","t","e","t","i","m","e">>
T_instant == <<"i","n","s","t","a","n","t">>
T_base64Binary == <<"b","a","s","e","6","4","B","i","n","a","r","y">>

P_str == <<"s","t","r">>
P_int == <<"i","n","t">>
P_float == <<"f","l","o","a","t">>
P_bool == <<"b","o","o","l">>
P_bytes == <<"b","y","t","e","s">>
P_Any == <<"A","n","y">>
P_listOpen == <<"l","i","s","t","[">>
P_listClose == <<"]">>

\* A plausible slip: the element type of a collection is looked up without
\* recursing, so a collection of collections loses its inner nesting.
RECURSIVE toPythonType_Flat(_)
toPythonType_Flat(t) ==
    IF t \in {T_string, T_code, T_id, T_uri, T_url} THEN P_str
    ELSE IF t \in {T_integer, T_positiveInt, T_unsignedInt} THEN P_int
    ELSE IF t = T_decimal THEN P_float
    ELSE IF t = T_boolean THEN P_bool
    ELSE IF t = T_date THEN T_date
    ELSE IF t \in {T_datetime, T_instant} THEN T_datetime
    ELSE IF t = T_base64Binary THEN P_bytes
    ELSE IF HasPrefix(t, Marker)
         THEN LET inner == TrimPrefix(t, Marker)
              IN  P_listOpen
                    \o (IF HasPrefix(inner, Marker) THEN P_Any ELSE toPythonType_Flat(inner))
                    \o P_listClose
    ELSE P_Any

RECURSIVE toPythonType(_)
toPythonType(t) ==
    IF t \in {T_string, T_code, T_id, T_uri, T_url} THEN P_str
    ELSE IF t \in {T_integer, T_positiveInt, T_unsignedInt} THEN P_int
    ELSE IF t = T_decimal THEN P_float
    ELSE IF t = T_boolean THEN P_bool
    ELSE IF t = T_date THEN T_date
    ELSE IF t \in {T_datetime, T_instant} THEN T_datetime
    ELSE IF t = T_base64Binary THEN P_bytes
    ELSE IF HasPrefix(t, Marker)
         THEN P_listOpen \o toPythonType(TrimPrefix(t, Marker)) \o P_listClose
    ELSE P_Any

\* The largest number of collection markers put in front of a token.
MaxDepth == 2

RecognizedTokens ==
    {T_string, T_code, T_id, T_uri, T_url, T_integer, T_positiveInt, T_unsignedInt,
     T_decimal, T_boolean, T_date, T_datetime, T_instant, T_base64Binary}

\* Strings the switch does not list; none starts with the marker "[]".
OtherTokens ==
    {<<>>, <<"x">>, <<"[">>, <<"]">>, <<"[","x","]">>, <<"]","[","]">>,
     <<"D","a","t","e">>, <<"s","t","r","i","n","g","[","]">>,
     <<"R","e","f","e","r","e","n","c","e">>}

Tokens == RecognizedTokens \cup OtherTokens

RECURSIVE Markers(_)
Markers(k) == IF k = 0 THEN <<>> ELSE Marker \o Markers(k - 1)

TypeIdle ==
    /\ depth = 0
    /\ token = <<>>
    /\ yamlType = <<>>
    /\ pyType = <<>>
    /\ tpc = "idle"

TypeInputs ==
    /\ depth \in 0..MaxDepth
    /\ token \in Tokens
    /\ yamlType = Markers(depth) \o token
    /\ pyType = <<>>
    /\ tpc = "ready"

\* One call of toPythonType (the template's pythonType function).
MapType ==
    /\ tpc = "ready"
    /\ pyType' = toPythonType(yamlType)
    /\ tpc' = "done"
    /\ UNCHANGED <<depth, token, yamlType>>

----------------------------------------------------------------------------
(* Paths: path/filepath on relative, slash-separated paths *)

Slash == <<"/">>
S_dot == <<".">>

\* strings.Split(s, "/")
RECURSIVE Split(_)
Split(s) ==
    IF \A i \in 1..Len(s) : s[i] # "/"
    THEN <<s>>
    ELSE LET k == CHOOSE i \in 1..Len(s) :
                      s[i] = "/" /\ \A j \in 1..(i - 1) : s[j] # "/"
         IN  <<SubSeq(s, 1, k - 1)>> \o Split(SubSeq(s, k + 1, Len(s)))

\* filepath.Clean on the elements of a relative path: empty and "." elements
\* go, ".." removes the element before it, or stays when there is none to remove.
RECURSIVE CleanSegs(_, _)
CleanSegs(segs, acc) ==
    IF segs = <<>> THEN acc
    ELSE LET h == Head(segs)
         IN  IF h = <<>> \/ h = S_dot
             THEN CleanSegs(Tail(segs), acc)
             ELSE IF h = <<".",".">> /\ acc # <<>> /\ acc[Len(acc)] # <<".",".">>
             THEN CleanSegs(Tail(segs), SubSeq(acc, 1, Len(acc) - 1))
             ELSE CleanSegs(Tail(segs), Append(acc, h))

RECURSIVE JoinSegs(_)
JoinSegs(segs) ==
    IF segs = <<>> THEN <<>>
    ELSE IF Len(segs) = 1 THEN segs[1]
    ELSE segs[1] \o Slash \o JoinSegs(Tail(segs))

\* filepath.Clean
Clean(p) ==
    LET segs == CleanSegs(Split(p), <<>>)
    IN  IF segs = <<>> THEN S_dot ELSE JoinSegs(segs)

\* filepath.Join(a, b): empty elements are ignored, the result is cleaned.
Join(a, b) ==
    IF a = <<>> /\ b = <<>> THEN <<>>
    ELSE IF a = <<>> THEN Clean(b)
    ELSE IF b = <<>> THEN Clean(a)
    ELSE Clean(a \o Slash \o b)

\* filepath.Dir of a cleaned relative path
Dir(p) ==
    LET segs == Split(p)
    IN  IF Len(segs) <= 1 THEN S_dot ELSE JoinSegs(SubSeq(segs, 1, Len(segs) - 1))

----------------------------------------------------------------------------
(* schema.Loader *)

S_fhir_r4 == <<"f","h","i","r","_","r","4">>
S_schema_overrides == <<"s","c","h","e","m","a","_","o","v","e","r","r","i","d","e","s">>
S_ccda == <<"c","c","d","a">>
S_schemas == <<"s","c","h","e","m","a","s">>
S_obs_yaml == <<"o","b","s",".","y","a","m","l">>
S_patient_yaml == <<"p","a","t","i","e","n","t",".","y","a","m","l">>
S_Patient == <<"P","a","t","i","e","n","t">>

\* Schema.GetName
GetName(s) == IF s.Name # <<>> THEN s.Name ELSE s.Resource

\* yaml.Unmarshal(data, &schema): the keys Schema declares are taken, every
\* other key of the document (field_overrides, ...) is dropped; SourceFile and
\* Namespace are not read from the document (yaml:"-").
Unmarshal(doc) ==
    [Name |-> doc.name, Resource |-> doc.resource, Description |-> doc.description,
     Fields |-> doc.fields, SourceFile |-> <<>>, Namespace |-> <<>>]

\* The test of loader.go line 118, on the path Glob returned.
IsMappingFile(file) == HasSuffix(file, <<"_","m","a","p","p","i","n","g",".","y","a","m","l">>)

\* Lines 136-138: the schema is stamped and appended.
appendSchema(schema, file, namespace, acc) ==
    Append(acc, [schema EXCEPT !.SourceFile = file, !.Namespace = namespace])

\* Lines 122-138, for a path that is no mapping file: f is the directory
\* entry at path file, schema what yaml.Unmarshal made of its content.
loadFile(f, schema, file, namespace, acc) ==
    IF f.status = "unreadable" THEN acc
    ELSE IF f.status = "corrupt" THEN acc
    ELSE IF GetName(schema) = <<>> THEN acc
    ELSE appendSchema(schema, file, namespace, acc)

\* One turn of the loop of loadSchemaDir (lines 116-139): acc with the schema
\* of file appended, or acc as it is when the file is skipped.
loadStep(f, file, namespace, acc) ==
    IF IsMappingFile(file) THEN acc
    ELSE loadFile(f, Unmarshal(f.doc), file, namespace, acc)

\* The loop of loadSchemaDir over the paths Glob returned, from the i-th on.
RECURSIVE loadFiles(_, _, _, _, _)
loadFiles(dir, namespace, files, i, acc) ==
    IF i > Len(files) THEN acc
    ELSE loadFiles(dir, namespace, files, i + 1,
                   loadStep(files[i], Join(dir, files[i].base), namespace, acc))

\* A plausible slip: break instead of continue, so the first file that cannot
\* be read or parsed, or that has no name, ends the directory's load.
RECURSIVE loadFiles_Break(_, _, _)
loadFiles_Break(dir, namespace, files) ==
    IF files = <<>> THEN <<>>
    ELSE IF IsMappingFile(Join(dir, files[1].base))
    THEN loadFiles_Break(dir, namespace, Tail(files))
    ELSE IF files[1].status # "ok" \/ GetName(Unmarshal(files[1].doc)) = <<>>
    THEN <<>>
    ELSE <<[Unmarshal(files[1].doc) EXCEPT !.SourceFile = Join(dir, files[1].base),
                                          !.Namespace = namespace]>>
            \o loadFiles_Break(dir, namespace, Tail(files))

\* The loop of loadSchemaDir (lines 116-139).
loadLoop(dir, namespace, files) == loadFiles(dir, namespace, files, 1, <<>>)

\* filepath.Glob(filepath.Join(dir, "*.yaml")): the entries of dir whose name
\* ends in ".yaml", in name order.
Glob(files) == SelectSeq(files, LAMBDA f : HasSuffix(f.base, <<".","y","a","m","l">>))

IoCall(op, path) == [op |-> op, path |-> path]

\* The ReadFile calls of loadSchemaDir: one per path that is not a mapping file.
RECURSIVE ReadCalls(_, _)
ReadCalls(dir, files) ==
    IF files = <<>> THEN <<>>
    ELSE (IF IsMappingFile(Join(dir, files[1].base))
          THEN <<>>
          ELSE <<IoCall("ReadFile", Join(dir, files[1].base))>>)
            \o ReadCalls(dir, Tail(files))

\* filepath.ErrBadPattern, the one error Glob reports: a "[" that no "]" closes.
IsBadPattern(p) ==
    \E i \in 1..Len(p) : p[i] = "[" /\ \A j \in (i + 1)..Len(p) : p[j] # "]"

\* Loader.loadSchemaDir: entry is the directory at dir, its files in name order.
loadSchemaDir(dir, namespace, entry) ==
    IF IsBadPattern(Join(dir, <<"*",".","y","a","m","l">>))
    THEN [schemas |-> <<>>, err |-> "bad pattern", io |-> <<IoCall("Glob", dir)>>]
    ELSE [schemas |-> loadLoop(dir, namespace, Glob(entry.files)),
          err |-> "none",
          io |-> <<IoCall("Glob", dir)>> \o ReadCalls(dir, Glob(entry.files))]

\* A plausible slip: the override directory is scanned like a namespace.
IsSkippedDir_OnlyPrimary(name) == name = S_fhir_r4

\* The test of loader.go line 92: the entries the loop of LoadAll passes over.
IsSkippedDir(name) == name = S_fhir_r4 \/ name = S_schema_overrides

\* Lines 97-102: r is what loadSchemaDir returned for one directory; a
\* directory that fails to load is passed over.
addDir(r, acc) ==
    IF r.err # "none"
    THEN [schemas |-> acc.schemas, err |-> "none", io |-> acc.io \o r.io]
    ELSE [schemas |-> acc.schemas \o r.schemas, err |-> "none", io |-> acc.io \o r.io]

\* One turn of the loop of LoadAll (lines 87-103).
loadEntry(baseDir, entry, acc) ==
    IF ~entry.isDir THEN acc
    ELSE IF IsSkippedDir(entry.name) THEN acc
    ELSE addDir(loadSchemaDir(Join(baseDir, entry.name), entry.name, entry), acc)

\* The loop of LoadAll over the entries ReadDir returned, from the i-th on.
RECURSIVE loadOthers(_, _, _)
loadOthers(root, i, acc) ==
    IF i > Len(root.entries) THEN acc
    ELSE loadOthers(root, i + 1, loadEntry(root.baseDir, root.entries[i], acc))

\* os.Stat(fhirDir) succeeds: the root has an entry named fhir_r4.
HasPrimary(root) == \E i \in 1..Len(root.entries) : root.entries[i].name = S_fhir_r4

PrimaryEntry(root) ==
    root.entries[CHOOSE i \in 1..Len(root.entries) : root.entries[i].name = S_fhir_r4]

\* A plausible slip, and what section 4.1 of the design asks for: a primary
\* namespace that is not there is reported.
primaryAbsent_Error(fhirDir) ==
    [schemas |-> <<>>, err |-> "failed to load fhir_r4", io |-> <<>>]

\* What a primary namespace that is not there leads to (the test of line 73
\* fails): nothing is loaded from it, and LoadAll goes on.
primaryAbsent(fhirDir) ==
    [schemas |-> <<>>, err |-> "none", io |-> <<>>]

\* Lines 72-79: the primary namespace, loaded first.
loadPrimary(root, fhirDir) ==
    IF HasPrimary(root)
    THEN loadSchemaDir(fhirDir, S_fhir_r4, PrimaryEntry(root))
    ELSE primaryAbsent(fhirDir)

\* Lines 75-105: fhir is what the primary namespace gave, io the calls so far.
loadAfterPrimary(root, fhir, io) ==
    IF fhir.err # "none"
    THEN [schemas |-> <<>>, err |-> "failed to load fhir_r4", io |-> io]
    ELSE IF ~root.readable
    THEN [schemas |-> <<>>, err |-> "failed to read schema dir",
          io |-> Append(io, IoCall("ReadDir", root.baseDir))]
    ELSE loadOthers(root, 1,
                    [schemas |-> fhir.schemas, err |-> "none",
                     io |-> Append(io, IoCall("ReadDir", root.baseDir))])

loadFromPrimary(root, fhirDir, fhir) ==
    loadAfterPrimary(root, fhir, <<IoCall("Stat", fhirDir)>> \o fhir.io)

loadAllAt(root, fhirDir) == loadFromPrimary(root, fhirDir, loadPrimary(root, fhirDir))

\* Loader.LoadAll
LoadAll(root) == loadAllAt(root, Join(root.baseDir, S_fhir_r4))

\* fmt.Sprintf("%s/%s", s.Namespace, s.GetName())
FormatEntry(s) == s.Namespace \o Slash \o GetName(s)

\* Lines 177-185 of ListSchemas: r is what LoadAll returned.
listNames(r) ==
    IF r.err # "none"
    THEN [names |-> <<>>, err |-> r.err, io |-> r.io]
    ELSE [names |-> [i \in 1..Len(r.schemas) |-> FormatEntry(r.schemas[i])],
          err |-> "none", io |-> r.io]

\* Loader.ListSchemas
ListSchemas(root) == listNames(LoadAll(root))

----------------------------------------------------------------------------
(* The schema roots the loader is run on *)

FieldBirthDate ==
    [Name |-> <<"b","i","r","t","h","D","a","t","e">>, Type |-> T_date, Required |-> FALSE,
     Description |-> <<>>, PIILevel |-> <<"h","i","g","h">>, Children |-> <<>>]

FieldValue ==
    [Name |-> <<"v","a","l","u","e">>, Type |-> Marker \o T_decimal, Required |-> TRUE,
     Description |-> <<>>, PIILevel |-> <<>>, Children |-> <<>>]

\* resource: Patient, no name key (the FHIR convention)
DocPatient ==
    [name |-> <<>>, resource |-> S_Patient, description |-> <<>>,
     fields |-> <<FieldBirthDate>>, field_overrides |-> {}]

\* name and resource both given
DocObs ==
    [name |-> <<"O","b","s">>, resource |-> <<"O","b","s","e","r","v","a","t","i","o","n">>, description |-> <<>>,
     fields |-> <<FieldValue>>, field_overrides |-> {}]

\* a well-formed document with neither name nor resource
DocUnnamed ==
    [name |-> <<>>, resource |-> <<>>, description |-> <<>>,
     fields |-> <<>>, field_overrides |-> {}]

\* a mapping document that also carries a name key
DocMapping ==
    [name |-> <<"P","a","t","i","e","n","t","M","a","p">>, resource |-> <<>>, description |-> <<>>,
     fields |-> <<>>, field_overrides |-> {}]

\* the override document of the override directory's README
DocOverride ==
    [name |-> <<>>, resource |-> <<>>, description |-> <<>>, fields |-> <<>>,
     field_overrides |->
        {[field |-> <<"b","i","r","t","h","D","a","t","e">>, pii_level |-> <<"c","r","i","t","i","c","a","l">>,
          masking_strategy |-> <<"g","e","n","e","r","a","l","i","z","e">>]}]

\* a named document lying in the override directory itself
DocStray ==
    [name |-> <<"S","t","r","a","y">>, resource |-> <<>>, description |-> <<>>,
     fields |-> <<>>, field_overrides |-> {}]

File(base, status, doc) == [base |-> base, status |-> status, doc |-> doc]

\* The files a namespace directory may hold, in name order, each with the
\* states it may be in.
Candidates ==
    << {File(S_obs_yaml, "ok", DocObs), File(S_obs_yaml, "corrupt", DocUnnamed)},
       {File(S_patient_yaml, "ok", DocPatient), File(S_patient_yaml, "ok", DocUnnamed),
        File(S_patient_yaml, "unreadable", DocUnnamed)},
       {File(<<"p","a","t","i","e","n","t","_","m","a","p","p","i","n","g",".","y","a","m","l">>, "ok", DocMapping)},
       {File(<<"R","E","A","D","M","E",".","m","d">>, "ok", DocUnnamed)} >>

\* The largest number of files in one namespace directory.
MaxFiles == 2

\* The listings of at most n files drawn from Candidates[i..], in name order.
RECURSIVE Listings(_, _)
Listings(i, n) ==
    IF i > Len(Candidates) \/ n = 0 THEN {<<>>}
    ELSE Listings(i + 1, n)
            \cup {<<f>> \o l : f \in Candidates[i], l \in Listings(i + 1, n - 1)}

DirEntry(name, files, subdirs) ==
    [name |-> name, isDir |-> TRUE, files |-> files, subdirs |-> subdirs]

FileEntry(name) ==
    [name |-> name, isDir |-> FALSE, files |-> <<>>, subdirs |-> <<>>]

\* A namespace directory: not there (no entry), or there with one of the listings.
NamespaceOptions(name) ==
    {<<>>} \cup {<<DirEntry(name, l, <<>>)>> : l \in Listings(1, MaxFiles)}

OverrideSubdir ==
    <<DirEntry(S_fhir_r4, <<File(S_patient_yaml, "ok", DocOverride)>>, <<>>)>>

\* The override directory: not there, as the README lays it out, or with a
\* named document lying in it directly.
OverrideOptions ==
    { <<>>,
      <<DirEntry(S_schema_overrides, <<>>, OverrideSubdir)>>,
      <<DirEntry(S_schema_overrides, <<File(S_patient_yaml, "ok", DocStray)>>,
                 OverrideSubdir)>> }

\* The schema directory: the default of the --schemas flag, and a path that
\* is no well-formed glob pattern.
BaseDirs == {S_schemas, <<"s","[">>}

\* os.ReadDir returns the entries in name order: README.md, ccda, fhir_r4,
\* schema_overrides.
Roots ==
    { [baseDir |-> b, readable |-> r,
       entries |-> <<FileEntry(<<"R","E","A","D","M","E",".","m","d">>)>> \o c \o f \o o] :
        b \in BaseDirs, r \in BOOLEAN, c \in NamespaceOptions(S_ccda),
        f \in NamespaceOptions(S_fhir_r4), o \in OverrideOptions }

LoaderIdle ==
    /\ fs = [baseDir |-> S_schemas, readable |-> TRUE, entries |-> <<>>]
    /\ schemas = <<>>
    /\ err = "none"
    /\ names = <<>>
    /\ ioLog = <<>>
    /\ lpc = "unused"

LoaderInputs ==
    /\ fs \in Roots
    /\ schemas = <<>>
    /\ err = "none"
    /\ names = <<>>
    /\ ioLog = <<>>
    /\ lpc = "idle"

\* A call of Loader.LoadAll on a fresh Loader.
returnLoadAll(r) ==
    /\ schemas' = r.schemas
    /\ err' = r.err
    /\ ioLog' = r.io

CallLoadAll ==
    /\ lpc = "idle"
    /\ returnLoadAll(LoadAll(fs))
    /\ lpc' = "loaded"
    /\ UNCHANGED <<fs, names>>

\* A call of Loader.ListSchemas on a fresh Loader (the list command).
returnListSchemas(r) ==
    /\ names' = r.names
    /\ err' = r.err
    /\ ioLog' = r.io

CallListSchemas ==
    /\ lpc = "idle"
    /\ returnListSchemas(ListSchemas(fs))
    /\ lpc' = "listed"
    /\ UNCHANGED <<fs, schemas>>

----------------------------------------------------------------------------
(* python.Generator *)

\* The loop of toSnakeCase (lines 117-122), from the i-th character on: an
\* underscore goes in front of every upper-case letter but a leading one.
RECURSIVE snakeFrom(_, _)
snakeFrom(s, i) ==
    IF i > Len(s) THEN <<>>
    ELSE (IF i > 1 /\ IsUpper(s[i]) THEN <<"_">> ELSE <<>>)
            \o <<s[i]>> \o snakeFrom(s, i + 1)

\* toSnakeCase
toSnakeCase(s) == ToLower(snakeFrom(s, 1))

\* The text of one field line of the schema template (line 81), as the values
\* the template prints.
renderField(f) ==
    [name |-> toSnakeCase(f.Name), type |-> toPythonType(f.Type),
     optional |-> ~f.Required, description |-> f.Description]

\* The text generateSchema renders for s (lines 68-83).
schemaText(s) ==
    [kind |-> "schema", class |-> GetName(s), description |-> s.Description,
     fields |-> [i \in 1..Len(s.Fields) |-> renderField(s.Fields[i])]]

\* The text generateInit renders for the schemas of a namespace (lines 56-63):
\* one import line and one __all__ line per schema, in order.
initText(nsSchemas) ==
    [kind |-> "init",
     imports |-> [i \in 1..Len(nsSchemas) |->
                    [module |-> ToLower(GetName(nsSchemas[i])),
                     class |-> GetName(nsSchemas[i])]],
     all |-> [i \in 1..Len(nsSchemas) |-> GetName(nsSchemas[i])]]

\* The output tree: the directories, and the files with their text.
EmptyDisk == [dirs |-> {}, files |-> <<>>]

\* A directory that is there: one the run made, or the working directory.
DirExists(disk, d) == d = S_dot \/ d \in disk.dirs

\* p and the directories above it.
Ancestors(p) ==
    {JoinSegs(SubSeq(Split(p), 1, k)) : k \in 1..Len(Split(p))}

\* os.MkdirAll(p, 0755): fails when p or a directory above it is a file.
MkdirAllFails(disk, p) == \E a \in Ancestors(p) : a \in DOMAIN disk.files

MkdirAll(disk, p) == [disk EXCEPT !.dirs = @ \cup Ancestors(p)]

\* os.Create(p): fails when the directory of p is not there, or p is a directory.
CreateFails(disk, p) == ~DirExists(disk, Dir(p)) \/ p \in disk.dirs

\* executeTemplate (lines 100-106): the file at p is created or truncated and
\* the text written to it.
writeFile(disk, p, text) ==
    [disk EXCEPT !.files = [q \in (DOMAIN @) \cup {p} |-> IF q = p THEN text ELSE @[q]]]

\* A plausible slip: the schema is put in front of its namespace's slice.
groupOne_Prepend(m, s) ==
    [n \in (DOMAIN m) \cup {s.Namespace} |->
        IF n = s.Namespace
        THEN (IF n \in DOMAIN m THEN <<s>> \o m[n] ELSE <<s>>)
        ELSE m[n]]

\* Line 27, for one schema: it is appended to its namespace's slice.
groupOne(m, s) ==
    [n \in (DOMAIN m) \cup {s.Namespace} |->
        IF n = s.Namespace
        THEN (IF n \in DOMAIN m THEN Append(m[n], s) ELSE <<s>>)
        ELSE m[n]]

\* Lines 25-28: byNamespace after the schemas from the i-th on are added to m.
RECURSIVE groupFrom(_, _, _)
groupFrom(in, i, m) ==
    IF i > Len(in) THEN m ELSE groupFrom(in, i + 1, groupOne(m, in[i]))

\* The path of the file of schema s in namespace directory nsDir (lines 44-45).
schemaPath(nsDir, s) == Join(nsDir, ToLower(GetName(s)) \o <<".","p","y">>)

\* The output directory: the default of the --output flag.
outputDir == <<".","/","g","e","n","e","r","a","t","e","d">>

GenIdle ==
    /\ byNamespace = <<>>
    /\ pending = {}
    /\ nsCur = <<>>
    /\ idx = 0
    /\ out = EmptyDisk
    /\ gerr = "none"
    /\ gpc = "idle"
    /\ emitted = <<>>
    /\ run = 1
    /\ prev = [out |-> EmptyDisk, err |-> "none"]

\* Lines 25-28: the schemas are grouped by namespace.
Group ==
    /\ gpc = "group"
    /\ byNamespace' = groupFrom(schemas, 1, <<>>)
    /\ pending' = DOMAIN byNamespace'
    /\ gpc' = "range"
    /\ UNCHANGED <<schemas, nsCur, idx, out, gerr, emitted, run, prev>>

\* Line 33: os.MkdirAll failed.
mkdirFailed ==
    /\ gerr' = "failed to create directory"
    /\ gpc' = "done"
    /\ UNCHANGED <<out, emitted, idx>>

\* Lines 38-40 with generateInit failing in os.Create: disk is the output
\* tree after MkdirAll.
initFailed(disk) ==
    /\ out' = disk
    /\ gerr' = "failed to create file"
    /\ gpc' = "done"
    /\ UNCHANGED <<emitted, idx>>

\* Lines 37-38: __init__.py is written for the namespace.
initWritten(disk, ns, initPath) ==
    /\ out' = writeFile(disk, initPath, initText(byNamespace[ns]))
    /\ emitted' = Append(emitted, [ns |-> ns, path |-> initPath,
                                   text |-> initText(byNamespace[ns])])
    /\ idx' = 0
    /\ gpc' = "schemas"
    /\ UNCHANGED gerr

\* Lines 36-40: disk is the output tree after MkdirAll.
doInit(disk, ns, initPath) ==
    IF CreateFails(disk, initPath)
    THEN initFailed(disk)
    ELSE initWritten(disk, ns, initPath)

\* Lines 31-40, for the namespace the range statement yields.
beginNamespace(ns, nsDir) ==
    IF MkdirAllFails(out, nsDir)
    THEN mkdirFailed
    ELSE doInit(MkdirAll(out, nsDir), ns, Join(nsDir, <<"_","_","i","n","i","t","_","_",".","p","y">>))

\* Lines 30-40: the range over the map yields a namespace not yet visited, in
\* no order the language defines; its directory and __init__.py are made.
NextNamespace ==
    /\ gpc = "range"
    /\ \E ns \in pending :
          /\ pending' = pending \ {ns}
          /\ nsCur' = ns
          /\ beginNamespace(ns, Join(outputDir, ns))
    /\ UNCHANGED <<schemas, byNamespace, run, prev>>

\* Lines 46-48 with generateSchema failing in os.Create.
schemaFailed ==
    /\ gerr' = "failed to create file"
    /\ gpc' = "done"
    /\ UNCHANGED <<out, emitted, idx>>

\* Lines 44-46: the file of schema s is written.
schemaWritten(s, path) ==
    /\ out' = writeFile(out, path, schemaText(s))
    /\ emitted' = Append(emitted, [ns |-> nsCur, path |-> path, text |-> schemaText(s)])
    /\ idx' = idx + 1
    /\ gpc' = IF idx + 1 = Len(byNamespace[nsCur]) THEN "range" ELSE "schemas"
    /\ UNCHANGED gerr

doSchema(s, path) ==
    IF CreateFails(out, path) THEN schemaFailed ELSE schemaWritten(s, path)

\* Lines 43-49: the next schema of the current namespace.
NextSchema ==
    /\ gpc = "schemas"
    /\ idx < Len(byNamespace[nsCur])
    /\ doSchema(byNamespace[nsCur][idx + 1],
                schemaPath(Join(outputDir, nsCur), byNamespace[nsCur][idx + 1]))
    /\ UNCHANGED <<schemas, byNamespace, pending, nsCur, run, prev>>

\* Line 52: every namespace was visited.
Return ==
    /\ gpc = "range"
    /\ pending = {}
    /\ gpc' = "done"
    /\ UNCHANGED <<schemas, byNamespace, pending, nsCur, idx, out, gerr, emitted, run, prev>>

\* The largest number of Generate calls on one output directory.
MaxRuns == 2

\* Generate is called again with the same schemas and the same output
\* directory, which holds what the run before left.
Rerun ==
    /\ gpc = "done"
    /\ run < MaxRuns
    /\ prev' = [out |-> out, err |-> gerr]
    /\ run' = run + 1
    /\ gpc' = "group"
    /\ gerr' = "none"
    /\ byNamespace' = <<>>
    /\ pending' = {}
    /\ nsCur' = <<>>
    /\ idx' = 0
    /\ emitted' = <<>>
    /\ UNCHANGED <<schemas, out>>

\* The schemas Generate is called with.
Schema(ns, name, resource, fields, file) ==
    [Name |-> name, Resource |-> resource, Description |-> <<>>, Fields |-> fields,
     SourceFile |-> Join(Join(S_schemas, ns), file), Namespace |-> ns]

\* Patient as LoadAll gives it; a schema whose name differs from it in case
\* only; a schema named like the index module; a schema whose name holds path
\* separators; and two schemas of a second namespace.
SchemaPool ==
    { Schema(S_fhir_r4, <<>>, S_Patient, <<FieldBirthDate>>, S_patient_yaml),
      Schema(S_fhir_r4, <<"p","a","t","i","e","n","t">>, <<>>, <<>>, S_obs_yaml),
      Schema(S_fhir_r4, <<"_","_","i","n","i","t","_","_">>, <<>>, <<>>, <<"a",".","y","a","m","l">>),
      Schema(S_fhir_r4, <<".",".","/","c","c","d","a","/","_","_","i","n","i","t","_","_">>, <<>>, <<>>, <<"b",".","y","a","m","l">>),
      Schema(S_ccda, <<"O","b","s">>, <<"O","b","s","e","r","v","a","t","i","o","n">>, <<FieldValue>>, S_obs_yaml),
      Schema(S_ccda, <<>>, S_Patient, <<FieldBirthDate>>, S_patient_yaml) }

\* The largest number of schemas in one call of Generate; no schema is passed
\* twice (LoadAll loads every file once).
MaxSchemas == 3

RECURSIVE SchemaSeqs(_)
SchemaSeqs(n) ==
    IF n = 0 THEN {<<>>}
    ELSE SchemaSeqs(n - 1)
            \cup UNION { {Append(q, s) : s \in SchemaPool \ {q[i] : i \in 1..Len(q)}} :
                        q \in {x \in SchemaSeqs(n - 1) : Len(x) = n - 1} }

GenInputs ==
    /\ byNamespace = <<>>
    /\ pending = {}
    /\ nsCur = <<>>
    /\ idx = 0
    /\ out = EmptyDisk
    /\ gerr = "none"
    /\ gpc = "group"
    /\ emitted = <<>>
    /\ run = 1
    /\ prev = [out |-> EmptyDisk, err |-> "none"]

----------------------------------------------------------------------------
(* The generate command: generateCmd's RunE *)

L_python == <<"p","y","t","h","o","n">>
L_go == <<"g","o">>
L_golang == <<"g","o","l","a","n","g">>
L_typescript == <<"t","y","p","e","s","c","r","i","p","t">>
L_ts == <<"t","s">>
L_java == <<"j","a","v","a">>
L_rust == <<"r","u","s","t">>
L_rs == <<"r","s">>
L_csharp == <<"c","s","h","a","r","p">>
L_cs == <<"c","s">>
L_scala == <<"s","c","a","l","a">>
L_kotlin == <<"k","o","t","l","i","n">>
L_kt == <<"k","t">>
L_sql == <<"s","q","l">>
L_dbt == <<"d","b","t">>

\* A plausible slip: the short forms are missing from the switch.
SelectGenerator_NoShortForms(lang) ==
    IF lang = L_python THEN "python"
    ELSE IF lang = L_golang THEN "golang"
    ELSE IF lang = L_typescript THEN "typescript"
    ELSE IF lang = L_java THEN "java"
    ELSE IF lang = L_rust THEN "rust"
    ELSE IF lang = L_csharp THEN "csharp"
    ELSE IF lang = L_scala THEN "scala"
    ELSE IF lang = L_kotlin THEN "kotlin"
    ELSE IF lang = L_sql THEN "sql"
    ELSE "none"

\* A plausible slip: the default case falls back to the default language.
SelectGenerator_DefaultPython(lang) ==
    IF lang \in {L_go, L_golang} THEN "golang"
    ELSE IF lang \in {L_typescript, L_ts} THEN "typescript"
    ELSE IF lang = L_java THEN "java"
    ELSE IF lang \in {L_rust, L_rs} THEN "rust"
    ELSE IF lang \in {L_csharp, L_cs} THEN "csharp"
    ELSE IF lang = L_scala THEN "scala"
    ELSE IF lang \in {L_kotlin, L_kt} THEN "kotlin"
    ELSE IF lang \in {L_sql, L_dbt} THEN "sql"
    ELSE "python"

\* The switch of lines 71-92: the generator package whose NewGenerator is
\* called, "none" in the default case.
SelectGenerator(lang) ==
    IF lang = L_python THEN "python"
    ELSE IF lang \in {L_go, L_golang} THEN "golang"
    ELSE IF lang \in {L_typescript, L_ts} THEN "typescript"
    ELSE IF lang = L_java THEN "java"
    ELSE IF lang \in {L_rust, L_rs} THEN "rust"
    ELSE IF lang \in {L_csharp, L_cs} THEN "csharp"
    ELSE IF lang = L_scala THEN "scala"
    ELSE IF lang \in {L_kotlin, L_kt} THEN "kotlin"
    ELSE IF lang \in {L_sql, L_dbt} THEN "sql"
    ELSE "none"

\* The identifiers the --lang flag is given: the fifteen the switch lists,
\* four of them in another letter case, and three the switch does not know.
Identifiers ==
    {L_python, L_go, L_golang, L_typescript, L_ts, L_java, L_rust, L_rs, L_csharp,
     L_cs, L_scala, L_kotlin, L_kt, L_sql, L_dbt,
     <<"P","y","t","h","o","n">>, <<"R","S">>, <<"G","o">>, <<"T","y","p","e","S","c","r","i","p","t">>,
     <<"p","y">>, <<"c","o","b","o","l">>, <<>>}

NoError == [msg |-> "none", arg |-> <<>>]

\* The schema roots the command is run on: one that cannot be read, an empty
\* one, one without the primary namespace, and one with two namespaces.
CmdRoots ==
    { [baseDir |-> S_schemas, readable |-> FALSE, entries |-> <<>>],
      [baseDir |-> S_schemas, readable |-> TRUE, entries |-> <<>>],
      [baseDir |-> S_schemas, readable |-> TRUE,
       entries |-> <<DirEntry(S_ccda, <<File(S_obs_yaml, "ok", DocObs)>>, <<>>)>>],
      [baseDir |-> S_schemas, readable |-> TRUE,
       entries |-> <<DirEntry(S_ccda, <<File(S_obs_yaml, "ok", DocObs)>>, <<>>),
                     DirEntry(S_fhir_r4, <<File(S_patient_yaml, "ok", DocPatient)>>, <<>>)>>] }

CmdIdle ==
    /\ language = <<>>
    /\ cpc = "unused"
    /\ cerr = NoError
    /\ generator = "unselected"
    /\ prevSel = [language |-> <<>>, generator |-> "unselected"]
    /\ invocation = 1

CmdInputs ==
    /\ language \in Identifiers
    /\ cpc = "load"
    /\ cerr = NoError
    /\ generator = "unselected"
    /\ prevSel = [language |-> <<>>, generator |-> "unselected"]
    /\ invocation = 1

\* Lines 66-68: LoadAll failed and RunE returns.
loadFailed(r) ==
    /\ cerr' = [msg |-> "failed to load schemas", arg |-> r.err]
    /\ cpc' = "done"

loadDone(r) ==
    /\ cerr' = cerr
    /\ cpc' = "select"

returnToCmd(r) ==
    /\ returnLoadAll(r)
    /\ IF r.err # "none" THEN loadFailed(r) ELSE loadDone(r)

\* Lines 63-68: the loader is made and LoadAll called.
CmdLoad ==
    /\ cpc = "load"
    /\ returnToCmd(LoadAll(fs))
    /\ lpc' = "loaded"
    /\ UNCHANGED <<fs, names, language, generator, prevSel, invocation>>
    /\ UNCHANGED genVars

\* Line 91: no case of the switch matched.
unsupported(g) ==
    /\ cerr' = [msg |-> "unsupported language", arg |-> language]
    /\ cpc' = "done"

selected(g) ==
    /\ cerr' = cerr
    /\ cpc' = "generate"

switchTo(g) ==
    /\ generator' = g
    /\ IF g = "none" THEN unsupported(g) ELSE selected(g)

\* Lines 70-92: the switch on the language.
CmdSelect ==
    /\ cpc = "select"
    /\ switchTo(SelectGenerator(language))
    /\ UNCHANGED <<language, prevSel, invocation>>
    /\ UNCHANGED <<loaderVars, genVars>>

\* Line 94 for the Python generator: Generate starts on the loaded schemas.
CmdGeneratePython ==
    /\ cpc = "generate"
    /\ generator = "python"
    /\ gpc' = "group"
    /\ cpc' = "generating"
    /\ UNCHANGED <<language, cerr, generator, prevSel, invocation>>
    /\ UNCHANGED <<fs, schemas, err, names, ioLog, lpc>>
    /\ UNCHANGED <<byNamespace, pending, nsCur, idx, out, gerr, emitted, run, prev>>

\* The namespace directories of the schemas, made under the output directory.
RECURSIVE makeDirs(_, _, _)
makeDirs(disk, in, i) ==
    IF i > Len(in) THEN disk
    ELSE makeDirs(MkdirAll(disk, Join(outputDir, in[i].Namespace)), in, i + 1)

\* Line 94 for the generators of the other languages, whose packages are not
\* part of the sources at hand: by section 4.4 of the design they make the
\* namespace directories and write one file per unit; the directories are
\* modelled, the files (their names are the packages' own) are not.
CmdGenerateOther ==
    /\ cpc = "generate"
    /\ generator # "python"
    /\ out' = makeDirs(out, schemas, 1)
    /\ cpc' = "done"
    /\ UNCHANGED <<language, cerr, generator, prevSel, invocation>>
    /\ UNCHANGED <<fs, schemas, err, names, ioLog, lpc>>
    /\ UNCHANGED <<byNamespace, pending, nsCur, idx, gerr, gpc, emitted, run, prev>>

\* Lines 94-99: Generate returned.
CmdFinish ==
    /\ cpc = "generating"
    /\ gpc = "done"
    /\ cerr' = IF gerr # "none"
               THEN [msg |-> "failed to generate code", arg |-> gerr]
               ELSE NoError
    /\ cpc' = "done"
    /\ UNCHANGED <<language, generator, prevSel, invocation>>
    /\ UNCHANGED <<loaderVars, genVars>>

\* The largest number of invocations of the command on one schema root and
\* one output directory.
MaxInvocations == 2

\* The command is run again, with any language: a new process, the files of
\* the output directory are what the invocation before left.
Reinvoke ==
    /\ cpc = "done"
    /\ invocation < MaxInvocations
    /\ invocation' = invocation + 1
    /\ prevSel' = [language |-> language, generator |-> generator]
    /\ language' \in Identifiers
    /\ cpc' = "load"
    /\ cerr' = NoError
    /\ generator' = "unselected"
    /\ schemas' = <<>>
    /\ err' = "none"
    /\ ioLog' = <<>>
    /\ lpc' = "idle"
    /\ byNamespace' = <<>>
    /\ pending' = {}
    /\ nsCur' = <<>>
    /\ idx' = 0
    /\ gerr' = "none"
    /\ gpc' = "idle"
    /\ emitted' = <<>>
    /\ prev' = [out |-> out, err |-> "none"]
    /\ UNCHANGED <<fs, names, out, run>>

----------------------------------------------------------------------------
(* C10 *)

\* The table of section 4.3, as pairs <<abstract token, Python type>>.
TypeTable ==
    {<<T_string, P_str>>, <<T_code, P_str>>, <<T_id, P_str>>, <<T_uri, P_str>>,
     <<T_url, P_str>>, <<T_integer, P_int>>, <<T_positiveInt, P_int>>,
     <<T_unsignedInt, P_int>>, <<T_decimal, P_float>>, <<T_boolean, P_bool>>,
     <<T_date, T_date>>, <<T_datetime, T_datetime>>, <<T_instant, T_datetime>>,
     <<T_base64Binary, P_bytes>>}

TableEntry(t) ==
    IF \E p \in TypeTable : p[1] = t
    THEN (CHOOSE p \in TypeTable : p[1] = t)[2]
    ELSE P_Any

\* k nested list[...] wrappers around s.
RECURSIVE Nested(_, _)
Nested(k, s) == IF k = 0 THEN s ELSE P_listOpen \o Nested(k - 1, s) \o P_listClose

\* C10: toPythonType is total and keeps the nesting depth: k markers followed
\* by a token t that does not start with the marker map to exactly k nested
\* list[...] wrappers around the table entry of t, or around "Any" when t is
\* not in the table; the result is never empty.
C10_NestingPreserved ==
    tpc = "done" =>
        /\ ~HasPrefix(token, Marker)
        /\ pyType = Nested(depth, TableEntry(token))
        /\ Len(pyType) > 0

C10_Witness ==
    /\ tpc = "done"
    /\ depth = 2
    /\ token = T_date
    /\ pyType = <<"l","i","s","t","[","l","i","s","t","[","d","a","t","e","]","]">>

----------------------------------------------------------------------------
(* Specifications *)

\* The type mapper alone.
InitType == TypeInputs /\ LoaderIdle /\ GenIdle /\ CmdIdle

NextType == MapType /\ UNCHANGED <<loaderVars, genVars, cmdVars>>

SpecType == InitType /\ [][NextType]_vars

NextLoader ==
    \/ CallLoadAll /\ UNCHANGED <<typeVars, genVars, cmdVars>>
    \/ CallListSchemas /\ UNCHANGED <<typeVars, genVars, cmdVars>>

\* The loader alone, on every schema root of Roots.
InitLoader == LoaderInputs /\ TypeIdle /\ GenIdle /\ CmdIdle

SpecLoader == InitLoader /\ [][NextLoader]_vars

\* Generate alone, called with every schema sequence of SchemaSeqs(MaxSchemas).
InitGen ==
    /\ GenInputs
    /\ TypeIdle
    /\ CmdIdle
    /\ fs = [baseDir |-> S_schemas, readable |-> TRUE, entries |-> <<>>]
    /\ schemas \in SchemaSeqs(MaxSchemas)
    /\ err = "none"
    /\ names = <<>>
    /\ ioLog = <<>>
    /\ lpc = "unused"

NextGen ==
    \/ Group /\ UNCHANGED <<typeVars, cmdVars, fs, err, names, ioLog, lpc>>
    \/ NextNamespace /\ UNCHANGED <<typeVars, cmdVars, fs, err, names, ioLog, lpc>>
    \/ NextSchema /\ UNCHANGED <<typeVars, cmdVars, fs, err, names, ioLog, lpc>>
    \/ Return /\ UNCHANGED <<typeVars, cmdVars, fs, err, names, ioLog, lpc>>
    \/ Rerun /\ UNCHANGED <<typeVars, cmdVars, fs, err, names, ioLog, lpc>>

SpecGen == InitGen /\ [][NextGen]_vars

\* The generate command, invoked up to MaxInvocations times on each root of
\* CmdRoots with every identifier of Identifiers.
InitCmd ==
    /\ CmdInputs
    /\ TypeIdle
    /\ GenIdle
    /\ fs \in CmdRoots
    /\ schemas = <<>>
    /\ err = "none"
    /\ names = <<>>
    /\ ioLog = <<>>
    /\ lpc = "idle"

NextCmd ==
    \/ CmdLoad /\ UNCHANGED typeVars
    \/ CmdSelect /\ UNCHANGED typeVars
    \/ CmdGeneratePython /\ UNCHANGED typeVars
    \/ CmdGenerateOther /\ UNCHANGED typeVars
    \/ Group /\ UNCHANGED <<typeVars, cmdVars, fs, err, names, ioLog, lpc>>
    \/ NextNamespace /\ UNCHANGED <<typeVars, cmdVars, fs, err, names, ioLog, lpc>>
    \/ NextSchema /\ UNCHANGED <<typeVars, cmdVars, fs, err, names, ioLog, lpc>>
    \/ Return /\ UNCHANGED <<typeVars, cmdVars, fs, err, names, ioLog, lpc>>
    \/ CmdFinish /\ UNCHANGED typeVars
    \/ Reinvoke /\ UNCHANGED typeVars

SpecCmd == InitCmd /\ [][NextCmd]_vars

----------------------------------------------------------------------------
(* The claims about the loader, stated on the schema root itself *)

\* The name the design resolves for a document: name, else resource.
ResolvedName(doc) == IF doc.name # <<>> THEN doc.name ELSE doc.resource

\* <<i, j>>: file j of top-level directory i of the root, for the directories
\* that are namespaces (every directory but the reserved one) and the files
\* that are schema candidates (*.yaml, not *_mapping.yaml).
CandidateFiles ==
    {ij \in (1..Len(fs.entries)) \X (1..Len(Candidates)) :
        /\ fs.entries[ij[1]].isDir
        /\ fs.entries[ij[1]].name # S_schema_overrides
        /\ ij[2] <= Len(fs.entries[ij[1]].files)
        /\ HasSuffix(fs.entries[ij[1]].files[ij[2]].base, <<".","y","a","m","l">>)
        /\ ~HasSuffix(fs.entries[ij[1]].files[ij[2]].base, <<"_","m","a","p","p","i","n","g",".","y","a","m","l">>)}

FileAt(ij) == fs.entries[ij[1]].files[ij[2]]

\* A candidate that can be read and parsed and resolves to a name.
IsGood(ij) == FileAt(ij).status = "ok" /\ ResolvedName(FileAt(ij).doc) # <<>>

PathOf(ij) == fs.baseDir \o Slash \o fs.entries[ij[1]].name \o Slash \o FileAt(ij).base

\* The root can be enumerated: ReadDir succeeds and the directory patterns
\* are well formed.
Enumerable == fs.readable /\ ~IsBadPattern(fs.baseDir)

LoadedFrom(ij) == {k \in 1..Len(schemas) : schemas[k].SourceFile = PathOf(ij)}

\* The override files <root>/schema_overrides/<ns>/<file>, as <<ns, file>>.
OverrideFiles ==
    UNION { UNION { { <<e.subdirs[d].name, e.subdirs[d].files[j]>> :
                        j \in 1..Len(e.subdirs[d].files) } :
                    d \in 1..Len(e.subdirs) } :
            e \in {fs.entries[i] : i \in {n \in 1..Len(fs.entries) :
                                            fs.entries[n].name = S_schema_overrides}} }

\* C1: after LoadAll, every field that the override file of a loaded schema
\* names carries the override's pii_level.
C1_OverridesMerged ==
    (lpc = "loaded" /\ err = "none") =>
        \A k \in 1..Len(schemas) : \A o \in OverrideFiles :
            schemas[k].SourceFile = fs.baseDir \o Slash \o o[1] \o Slash \o o[2].base =>
                \A v \in o[2].doc.field_overrides : \A n \in 1..Len(schemas[k].Fields) :
                    schemas[k].Fields[n].Name = v.field =>
                        schemas[k].Fields[n].PIILevel = v.pii_level

C3_PerFileFailuresSkipped ==
    (lpc = "loaded" /\ Enumerable) =>
        /\ err = "none"
        /\ Len(schemas) = Cardinality({ij \in CandidateFiles : IsGood(ij)})
        /\ \A ij \in CandidateFiles :
              IF IsGood(ij)
              THEN \E k \in 1..Len(schemas) :
                      /\ LoadedFrom(ij) = {k}
                      /\ schemas[k].Namespace = fs.entries[ij[1]].name
                      /\ GetName(schemas[k]) = ResolvedName(FileAt(ij).doc)
              ELSE LoadedFrom(ij) = {}

C3_Witness ==
    /\ lpc = "loaded"
    /\ err = "none"
    /\ Len(schemas) = 2
    /\ \E ij \in CandidateFiles : FileAt(ij).status = "corrupt"
    /\ \E ij \in CandidateFiles : FileAt(ij).status = "unreadable"
    /\ \E ij \in CandidateFiles :
          /\ FileAt(ij).status = "corrupt"
          /\ \E k \in 1..Len(schemas) :
                /\ schemas[k].Namespace = fs.entries[ij[1]].name
                /\ GetName(schemas[k]) = S_Patient

\* C4: ListSchemas returns one "namespace/name" entry per schema file that
\* loads, and nothing else: no entry comes from a *_mapping.yaml file or from a
\* file under schema_overrides, and the namespace of an entry is the name of
\* the top-level directory that holds the file.
C4_ListSchemasExact ==
    (lpc = "listed" /\ err = "none" /\ Enumerable) =>
        /\ Len(names) = Cardinality({ij \in CandidateFiles : IsGood(ij)})
        /\ \A ij \in CandidateFiles :
              IsGood(ij) =>
                \E k \in 1..Len(names) :
                    names[k] = fs.entries[ij[1]].name \o Slash \o ResolvedName(FileAt(ij).doc)
        /\ \A k \in 1..Len(names) :
              \E ij \in CandidateFiles :
                  /\ IsGood(ij)
                  /\ names[k] = fs.entries[ij[1]].name \o Slash \o ResolvedName(FileAt(ij).doc)

C4_Witness ==
    /\ lpc = "listed"
    /\ err = "none"
    /\ names = <<S_fhir_r4 \o Slash \o S_Patient>>
    /\ \E i \in 1..Len(fs.entries) :
          /\ fs.entries[i].name = S_ccda
          /\ fs.entries[i].files = <<File(<<"p","a","t","i","e","n","t","_","m","a","p","p","i","n","g",".","y","a","m","l">>, "ok", DocMapping)>>
    /\ \E i \in 1..Len(fs.entries) :
          /\ fs.entries[i].name = S_schema_overrides
          /\ fs.entries[i].files # <<>>

----------------------------------------------------------------------------
(* The claims about Generate, stated on its input and the output tree *)

\* The resolved name of a schema: name, else resource.
SchemaName(s) == IF s.Name # <<>> THEN s.Name ELSE s.Resource

NamespacesOf(in) == {in[i].Namespace : i \in 1..Len(in)}

\* The schemas of namespace ns, in their order in the input.
InNamespace(in, ns) == SelectSeq(in, LAMBDA s : s.Namespace = ns)

\* The namespaces of the input in the order of their first occurrence.
RECURSIVE FirstOccurrences(_, _)
FirstOccurrences(in, acc) ==
    IF in = <<>> THEN acc
    ELSE IF \E i \in 1..Len(acc) : acc[i] = Head(in).Namespace
    THEN FirstOccurrences(Tail(in), acc)
    ELSE FirstOccurrences(Tail(in), Append(acc, Head(in).Namespace))

\* The directory of namespace ns under ./generated.
NamespaceDir(ns) == <<"g","e","n","e","r","a","t","e","d","/">> \o ns

UnitsIn(ns, kind) ==
    {p \in DOMAIN out.files : Dir(p) = NamespaceDir(ns) /\ out.files[p].kind = kind}

\* C7: after a successful Generate every namespace directory holds one index
\* unit that lists every schema name of the namespace, and as many per-schema
\* units as the namespace has schemas.
C7_OneUnitPerSchema ==
    (gpc = "done" /\ gerr = "none" /\ run = 1) =>
        \A ns \in NamespacesOf(schemas) :
            /\ Cardinality(UnitsIn(ns, "init")) = 1
            /\ \A p \in UnitsIn(ns, "init") :
                  out.files[p].all =
                      [i \in 1..Len(InNamespace(schemas, ns)) |->
                          SchemaName(InNamespace(schemas, ns)[i])]
            /\ Cardinality(UnitsIn(ns, "schema")) = Len(InNamespace(schemas, ns))

\* What a written file shows of the schemas: the names an index lists, the
\* class a per-schema unit defines.
Shown(e) ==
    IF e.text.kind = "init"
    THEN [kind |-> "init", names |-> e.text.all]
    ELSE [kind |-> "schema", names |-> <<e.text.class>>]

EmittedFor(ns) ==
    [i \in 1..Len(SelectSeq(emitted, LAMBDA e : e.ns = ns)) |->
        Shown(SelectSeq(emitted, LAMBDA e : e.ns = ns)[i])]

\* The index of ns, then its schemas in their order in the input.
ExpectedFor(ns) ==
    <<[kind |-> "init",
       names |-> [i \in 1..Len(InNamespace(schemas, ns)) |->
                    SchemaName(InNamespace(schemas, ns)[i])]]>>
    \o [i \in 1..Len(InNamespace(schemas, ns)) |->
          [kind |-> "schema", names |-> <<SchemaName(InNamespace(schemas, ns)[i])>>]]

\* The namespaces in the order Generate visited them.
VisitOrder ==
    [i \in 1..Len(SelectSeq(emitted, LAMBDA e : e.text.kind = "init")) |->
        SelectSeq(emitted, LAMBDA e : e.text.kind = "init")[i].ns]

C9_RerunSameOutput ==
    (run = 2 /\ gpc = "done" /\ gerr = "none" /\ prev.err = "none") => out = prev.out

----------------------------------------------------------------------------
(* The claims about the generate command *)

\* strings.EqualFold on the identifiers at hand.
EqualFold(a, b) == ToLower(a) = ToLower(b)

\* The synonym groups the registry is described with: each identifier with
\* the language it names.
LanguageTable ==
    { <<L_python, "python">>,
      <<L_go, "go">>, <<L_golang, "go">>,
      <<L_typescript, "typescript">>, <<L_ts, "typescript">>,
      <<L_java, "java">>,
      <<L_rust, "rust">>, <<L_rs, "rust">>,
      <<L_csharp, "csharp">>, <<L_cs, "csharp">>,
      <<L_scala, "scala">>,
      <<L_kotlin, "kotlin">>, <<L_kt, "kotlin">>,
      <<L_sql, "sql">>, <<L_dbt, "sql">> }

\* id, spelled as given, is one of the identifiers of the table.
Accepted(id) == \E e \in LanguageTable : e[1] = id

\* id is one of the identifiers of the table when letter case is ignored.
AcceptedFold(id) == \E e \in LanguageTable : EqualFold(e[1], id)

\* The languages id names, spelled as given and with letter case ignored.
LanguageOf(id) == {e[2] : e \in {x \in LanguageTable : x[1] = id}}
LanguageOfFold(id) == {e[2] : e \in {x \in LanguageTable : EqualFold(x[1], id)}}

\* The switch has run in this invocation and in the one before it.
BothSelected ==
    /\ invocation = 2
    /\ generator # "unselected"
    /\ prevSel.generator # "unselected"

\* C5 as the design states it: two identifiers that are equal ignoring letter case, or
\* that are synonyms of each other, select the same Generator implementation,
\* and identifiers of different languages select different implementations.
C5_CaseInsensitiveRegistry ==
    BothSelected /\ AcceptedFold(prevSel.language) /\ AcceptedFold(language) =>
        /\ generator # "none"
        /\ prevSel.generator # "none"
        /\ (LanguageOfFold(prevSel.language) = LanguageOfFold(language))
               <=> (generator = prevSel.generator)

\* C5, as the code has it: the registry matches identifiers exactly as spelled, in lower
\* case: two identifiers of the table select the same Generator implementation
\* when they are equal or synonyms of each other and different implementations
\* when they name different languages; every other identifier, one that
\* differs from an accepted one only in letter case included, selects none.
C5_ExactRegistry ==
    /\ generator # "unselected" => (generator = "none" <=> ~Accepted(language))
    /\ BothSelected /\ Accepted(prevSel.language) /\ Accepted(language) =>
           /\ generator # "none"
           /\ prevSel.generator # "none"
           /\ (LanguageOf(prevSel.language) = LanguageOf(language))
                  <=> (generator = prevSel.generator)
    /\ BothSelected /\ ~Accepted(language) => generator = "none"

\* "rs" selects the Generator "rust" selected in the invocation before.
C5_Witness ==
    /\ BothSelected
    /\ prevSel.language = L_rust
    /\ language = L_rs
    /\ generator = prevSel.generator
    /\ generator # "none"

\* C6 as the design states it: a run with an identifier that selects no Generator ends
\* with the unsupported-language error echoing the identifier, and when the
\* error is returned nothing of the schema root has been read and nothing
\* has been created in the output directory, whatever the schema root.
C6_UnsupportedBeforeAnyIO ==
    cpc = "done" /\ ~Accepted(language) =>
        /\ cerr = [msg |-> "unsupported language", arg |-> language]
        /\ ioLog = <<>>
        /\ out = prev.out

\* C6, as the code has it: a run with an identifier that selects no Generator reads the
\* schema root first. When loading fails the run ends with the load error;
\* otherwise it ends with the unsupported-language error echoing the
\* identifier, the schema root having been read. In both cases no Generator
\* is built and nothing is created or changed in the output directory.
C6_UnsupportedAfterLoad ==
    cpc = "done" /\ ~Accepted(language) =>
        /\ ioLog # <<>>
        /\ out = prev.out
        /\ gpc = "idle"
        /\ IF err # "none"
           THEN cerr = [msg |-> "failed to load schemas", arg |-> err]
                /\ generator = "unselected"
           ELSE cerr = [msg |-> "unsupported language", arg |-> language]
                /\ generator = "none"

\* The second invocation, with "cobol" on a root that loads, ends with the
\* unsupported-language error; the output of the first invocation is there.
C6_Witness ==
    /\ cpc = "done"
    /\ invocation = 2
    /\ language = <<"c","o","b","o","l">>
    /\ cerr = [msg |-> "unsupported language", arg |-> <<"c","o","b","o","l">>]
    /\ Len(schemas) > 0
    /\ Len(ioLog) > 1
    /\ out # EmptyDisk
    /\ out = prev.out

====
